---- MODULE Spec2Model ----
(***************************************************************************)
(* State-machine model of the searchable multi-select widget               *)
(* (MultipleSelector, src/src/components/ui/auto-form/fields/              *)
(* enum-multi-input.tsx).  Strings are sequences of one-character strings  *)
(* so that toLowerCase, includes and === are computed, not assumed.        *)
(*                                                                         *)
(* The schema walker (AutoFormObject, src/unnamed/part_000) is a second    *)
(* state machine with its own variables and its own specification,         *)
(* WalkerSpec; each specification leaves the other machine's variables     *)
(* untouched.                                                              *)
(***************************************************************************)
EXTENDS Integers, Sequences, FiniteSets, Bags, TLC

\* ------------------------------------------------------------------ bounds
MaxQueryLen == 3
MaxSel == 2
MaxInFlight == 2
MaxKeys == 2

\* ------------------------------------------------------------------ strings
Alphabet == <<"a", "b", "c", "d", "e", "f">>

EmptyStr == <<>>

\* String.prototype.toLowerCase, character by character
LowerChar(c) ==
  CASE c = "A" -> "a"
    [] c = "B" -> "b"
    [] c = "C" -> "c"
    [] c = "D" -> "d"
    [] c = "E" -> "e"
    [] c = "F" -> "f"
    [] OTHER -> c

toLowerCase(s) == [i \in 1..Len(s) |-> LowerChar(s[i])]

\* String.prototype.includes: t occurs in s as a contiguous substring
includes(s, t) ==
  \E k \in 0..(Len(s) - Len(t)) : SubSeq(s, k + 1, k + Len(t)) = t

\* the text "abc..." cut after n characters
Prefix(n) == [i \in 1..n |-> Alphabet[((i - 1) % Len(Alphabet)) + 1]]

\* the texts the user can have in the input box
Queries == {Prefix(n) : n \in 0..MaxQueryLen}

\* ------------------------------------------------------------------ options
\* interface Option { value; label; disable?; fixed? }
Opt(v, l, d, f) == [value |-> v, label |-> l, disable |-> d, fixed |-> f]

\* an entry as the widget itself builds it: {value, label}
Plain(v, l) == [value |-> v, label |-> l]

\* option.fixed is truthy
IsFixed(o) == "fixed" \in DOMAIN o /\ o.fixed

\* option.disable is truthy
IsDisabled(o) == "disable" \in DOMAIN o /\ o.disable

optA == Opt(<<"a">>, <<"a">>, FALSE, FALSE)
optUpA == Opt(<<"A">>, <<"A">>, TRUE, FALSE)
optUpAB == Opt(<<"A", "B">>, <<"a", "b">>, FALSE, FALSE)
optFixedB == Opt(<<"b">>, <<"b">>, FALSE, TRUE)

\* the defaultOptions prop: "a", a disabled "A", "AB" and "a" once more
Pools == {<<optA, optUpA, optUpAB, optA>>}

\* the value prop, at mount and on later renders of the host
HostValues == {<<>>, <<Plain(<<"a">>, <<"a">>), optFixedB>>}

\* ------------------------------------------------------------------ schema nodes
\* zod schema objects, by their _def: typeName and the fields the walker reads
Undefined == [typeName |-> "undefined"]
ZString == [typeName |-> "ZodString"]
ZBoolean == [typeName |-> "ZodBoolean"]
ZNumber == [typeName |-> "ZodNumber", coerce |-> FALSE]
ZEnum(vals) == [typeName |-> "ZodEnum", values |-> vals]
ZOptional(n) == [typeName |-> "ZodOptional", innerType |-> n]
ZDefault(n) == [typeName |-> "ZodDefault", innerType |-> n]
ZArray(n) == [typeName |-> "ZodArray", type |-> n]
ZObject(sh) == [typeName |-> "ZodObject", shape |-> sh]

\* one key of an object's shape
Key(name, node) == [name |-> name, node |-> node]

\* ------------------------------------------------------------------ state
VARIABLES
  cfg,                  \* the props: onSearch, creatable, triggerSearchOnFocus, maxSelected, defaultOptions
  selected,             \* useState<Option[]>(value || [])
  options,              \* useState<Option[]>(arrayDefaultOptions)
  inputValue,           \* useState('')
  debouncedSearchTerm,  \* useDebounce(inputValue, delay || 250)
  timers,               \* pending setTimeout callbacks of useDebounce, each with its captured value
  open,                 \* useState(false)
  mouseOn,              \* useRef(false)
  isLoading,            \* useState(false)
  inflight,             \* bag of the unresolved promises returned by onSearch
  selectables,          \* useMemo(removePickedOption(...))
  lastOp,               \* the selection handler the last step ran, if any
  prev,                 \* selected and inputValue as that handler found them
  changeLog,            \* arguments of the onChange invocations made by the last handler
  maxCalls,             \* onMaxSelected invocations made by the last handler
  searchCalls,          \* terms of the onSearch invocations made by the last step
  burst,                \* the rapid queries typed so far inside one debounce window
  execLog,              \* filter / fetch executions since the burst began
  fetchHist,            \* the term exec last searched for with no fetch rejected since, and
                        \* the term of the fetch that resolved last
  mounted               \* the component is mounted (its effects are not cleaned up yet)

widgetVars ==
  <<cfg, selected, options, inputValue, debouncedSearchTerm, timers, open,
    mouseOn, isLoading, inflight, selectables, lastOp, prev,
    changeLog, maxCalls, searchCalls, burst, execLog, fetchHist, mounted>>

\* the schema walker: AutoFormObject's props and what one pass does with them
VARIABLES
  schema,               \* the schema prop: the zod object tree the host built (mutable)
  schema0,              \* that tree as it was before the pass
  dependencies,         \* the dependencies prop
  fieldConfig,          \* the fieldConfig prop, one entry per configured path
  values,               \* the form values watch() returns
  frames,               \* the AutoFormObject invocations in progress, innermost last
  out,                  \* the elements the invocations returned so far
  outcome               \* "idle", "walking", "done" or "threw"

walkerVars ==
  <<schema, schema0, dependencies, fieldConfig, values, frames, out, outcome>>

vars == <<widgetVars, walkerVars>>

\* The configurations explored.  Static pool: creatable or not, every limit up
\* to MaxSel.  Async search: limit 1, either creatable without
\* triggerSearchOnFocus or triggerSearchOnFocus without creatable.
Configs ==
  {c \in [onSearch : BOOLEAN, creatable : BOOLEAN,
          triggerSearchOnFocus : BOOLEAN, maxSelected : 1..MaxSel,
          defaultOptions : Pools] :
     \/ ~c.onSearch /\ ~c.triggerSearchOnFocus
     \/ c.onSearch /\ c.maxSelected = 1 /\ c.creatable # c.triggerSearchOnFocus}

\* ------------------------------------------------------------------ pure helpers
\* variant: the query filter compares without lower-casing
removePickedOption_caseSensitive(opts, picked, term) ==
  LET notPicked(val) == ~ \E i \in 1..Len(picked) : picked[i].value = val.value
      matches(option) == includes(option.value, term)
      kept == SelectSeq(SelectSeq(opts, notPicked), matches)
  IN  [i \in 1..Len(kept) |-> Plain(kept[i].value, kept[i].label)]

\* variant: the options already picked stay among the candidates
removePickedOption_keepsPicked(opts, picked, term) ==
  LET matches(option) == includes(toLowerCase(option.value), toLowerCase(term))
      kept == SelectSeq(opts, matches)
  IN  [i \in 1..Len(kept) |-> Plain(kept[i].value, kept[i].label)]

removePickedOption(opts, picked, term) ==
  LET notPicked(val) == ~ \E i \in 1..Len(picked) : picked[i].value = val.value
      matches(option) == includes(toLowerCase(option.value), toLowerCase(term))
      kept == SelectSeq(SelectSeq(opts, notPicked), matches)
  IN  [i \in 1..Len(kept) |-> Plain(kept[i].value, kept[i].label)]

\* variant: a target counts as existing when it merely contains an option's value
isOptionsExist_substring(opts, targetOption) ==
  \E i \in 1..Len(opts) : \E j \in 1..Len(targetOption) :
    includes(toLowerCase(targetOption[j].value), toLowerCase(opts[i].value))

isOptionsExist(opts, targetOption) ==
  \E i \in 1..Len(opts) : \E j \in 1..Len(targetOption) :
    toLowerCase(targetOption[j].value) = toLowerCase(opts[i].value)

\* the promise returned by the host's onSearch(term): a server-side search
SearchResult(term) ==
  LET hit(o) == includes(toLowerCase(o.value), toLowerCase(term))
  IN  SelectSeq(cfg.defaultOptions, hit)

\* variant: the limit test is off by one
AtLimit_strict(sel) == Len(sel) > cfg.maxSelected

\* selected.length >= maxSelected
AtLimit(sel) == Len(sel) >= cfg.maxSelected

\* variant: the new entry is put first
appendOption_front(sel, option) == <<option>> \o sel

\* [...selected, option]
appendOption(sel, option) == Append(sel, option)

\* the option object the CreatableItem's onSelect builds from cmdk's value
createdOption(value) == Plain(value, value)

\* selected.filter((s) => s.value !== option.value)
handleUnselect(sel, option) ==
  LET keep(s) == s.value # option.value IN SelectSeq(sel, keep)

\* variant: the fixed test on the last entry is missing
keyDownTarget_anyLast(sel, input) ==
  IF input = EmptyStr /\ Len(sel) > 0 THEN <<sel[Len(sel)]>> ELSE <<>>

\* handleKeyDown: the entry Backspace/Delete unselects, as a 0/1-element sequence
keyDownTarget(sel, input) ==
  IF input = EmptyStr /\ Len(sel) > 0 /\ ~IsFixed(sel[Len(sel)])
    THEN <<sel[Len(sel)]>>
    ELSE <<>>

\* variant: clear-all empties the selection
clearAllSelected_everything(sel) == <<>>

\* clear-all: setSelected(selected.filter((s) => s.fixed))
clearAllSelected(sel) == SelectSeq(sel, IsFixed)

\* variant: clear-all reports the selection as it was
clearAllNotified_stale(sel) == sel

\* clear-all: onChange?.(selected.filter((s) => s.fixed))
clearAllNotified(sel) == SelectSeq(sel, IsFixed)

\* variant: the X button is shown on every badge
chipDeleteHidden_never(option) == FALSE

\* the X button of a badge carries the class 'hidden'
chipDeleteHidden(option) == IsFixed(option)

\* the clear-all button carries the class 'hidden'
clearAllHidden(sel) == Len(sel) < 1 \/ Len(clearAllSelected(sel)) = Len(sel)

\* CreatableItem() returns the "Create ..." item
CreatableItem ==
  /\ cfg.creatable
  /\ ~ ( \/ isOptionsExist(options, <<Plain(inputValue, inputValue)>>)
         \/ \E i \in 1..Len(selected) :
              toLowerCase(selected[i].value) = toLowerCase(inputValue) )
  /\ \/ ~cfg.onSearch /\ Len(inputValue) > 0
     \/ cfg.onSearch /\ Len(debouncedSearchTerm) > 0 /\ ~isLoading

\* the option list (CommandGroupContent) is rendered
ListShown == open /\ ~isLoading

\* useDebounce's effect: a changed value clears the old timer and starts one
debounceTimers(oldValue, newValue, pending) ==
  IF newValue # oldValue THEN <<newValue>> ELSE pending

\* exec(): how many times doSearch runs for this debounced term
doSearchCount(term) ==
  (IF cfg.triggerSearchOnFocus THEN 1 ELSE 0) + (IF term # EmptyStr THEN 1 ELSE 0)

\* a pending doSearch: its term, and whether exec runs doSearch once more after it
Fetch(term, more) == [term |-> term, more |-> more]

\* onSearch is called: one more promise is pending
Issue(pending, f) == pending (+) SetToBag({f})

\* a pending promise resolves or rejects
Settle(pending, f) == pending (-) SetToBag({f})

\* no term yet
NoTerm == <<"-">>

\* exec starts a search for term: it is the latest one searched for
Started(h, term) == [h EXCEPT !.latest = term]

\* variant: a result is dropped once some fetch has resolved before it
resolvedOptions_firstWins(current, h, result) ==
  IF h.last = NoTerm THEN result ELSE current

\* doSearch after its await: setOptions(res || [])
resolvedOptions(current, h, result) == result

\* the queries of the rapid-typing scenario: "a", "ab", "abc"
RapidQueries == [i \in 1..3 |-> Prefix(i)]

\* ------------------------------------------------------------------ initial state
\* prev when the last step ran no selection handler
NoPrev == [selected |-> <<>>, inputValue |-> EmptyStr]

\* no form is being walked
NoWalk ==
  /\ schema = Undefined
  /\ schema0 = Undefined
  /\ dependencies = <<>>
  /\ fieldConfig = <<>>
  /\ values = <<>>
  /\ frames = <<>>
  /\ out = <<>>
  /\ outcome = "idle"

\* the mount: useState(value || []) with a value prop within maxSelected; a longer
\* value prop arrives through ValueSync
Init ==
  /\ NoWalk
  /\ cfg \in Configs
  /\ selected \in {v \in HostValues : Len(v) <= cfg.maxSelected}
  /\ options = cfg.defaultOptions
  /\ inputValue = EmptyStr
  /\ debouncedSearchTerm = EmptyStr
  /\ timers = <<EmptyStr>>
  /\ open = FALSE
  /\ mouseOn = FALSE
  /\ isLoading = FALSE
  /\ inflight = EmptyBag
  /\ selectables = removePickedOption(cfg.defaultOptions, selected, EmptyStr)
  /\ lastOp = "none"
  /\ prev = NoPrev
  /\ changeLog = <<>>
  /\ maxCalls = 0
  /\ searchCalls = <<>>
  /\ burst = <<>>
  /\ execLog = <<>>
  /\ fetchHist = [latest |-> NoTerm, last |-> NoTerm]
  /\ mounted = TRUE

\* no widget is mounted: the state of an unused one
NoWidget ==
  /\ cfg = [onSearch |-> FALSE, creatable |-> FALSE, triggerSearchOnFocus |-> FALSE,
            maxSelected |-> 1, defaultOptions |-> <<>>]
  /\ selected = <<>>
  /\ options = <<>>
  /\ inputValue = EmptyStr
  /\ debouncedSearchTerm = EmptyStr
  /\ timers = <<>>
  /\ open = FALSE
  /\ mouseOn = FALSE
  /\ isLoading = FALSE
  /\ inflight = EmptyBag
  /\ selectables = <<>>
  /\ lastOp = "none"
  /\ prev = NoPrev
  /\ changeLog = <<>>
  /\ maxCalls = 0
  /\ searchCalls = <<>>
  /\ burst = <<>>
  /\ execLog = <<>>
  /\ fetchHist = [latest |-> NoTerm, last |-> NoTerm]
  /\ mounted = FALSE

\* ------------------------------------------------------------------ shared steps
\* the render that follows a handler: useMemo recomputes selectables
Render ==
  selectables' =
    removePickedOption(options', selected',
                       IF cfg.onSearch THEN EmptyStr ELSE debouncedSearchTerm')

Observe(op, changes, limitCalls, searches) ==
  /\ lastOp' = op
  /\ prev' = (IF op = "none" THEN NoPrev
                            ELSE [selected |-> selected, inputValue |-> inputValue])
  /\ changeLog' = changes
  /\ maxCalls' = limitCalls
  /\ searchCalls' = searches

\* anything but typing, a timer expiry or a fetch settling ends the scenario
BurstEnds == burst' = <<>> /\ execLog' = <<>>

\* the handlers that start no search and settle none
NoFetch == UNCHANGED fetchHist

\* the widget's handlers do not touch the walker
WalkerStays == UNCHANGED walkerVars

\* handlers, effects and timer callbacks run on a mounted component only
Alive == mounted /\ UNCHANGED mounted

\* variant: the effect of useDebounce returns no cleanup
cleanupTimers_none(pending) == pending

\* useDebounce: return () => { clearTimeout(timer); }
cleanupTimers(pending) == <<>>

\* ------------------------------------------------------------------ input events
\* CommandPrimitive.Input onFocus, then the search effect on the changed open
Focus ==
  LET direct == IF cfg.triggerSearchOnFocus /\ cfg.onSearch
                  THEN <<debouncedSearchTerm>>
                  ELSE <<>>
      n == doSearchCount(debouncedSearchTerm)
      runs == ~open /\ cfg.onSearch /\ n > 0
  IN  /\ runs => BagCardinality(inflight) < MaxInFlight
      /\ open' = TRUE
      /\ inflight' = (IF runs THEN Issue(inflight, Fetch(debouncedSearchTerm, n = 2))
                              ELSE inflight)
      /\ isLoading' = (isLoading \/ runs)
      /\ UNCHANGED <<cfg, selected, options, inputValue, debouncedSearchTerm,
                     timers, mouseOn>>
      /\ Render
      /\ WalkerStays
      /\ Alive
      /\ Observe("none", <<>>, 0,
                 direct \o (IF runs THEN <<debouncedSearchTerm>> ELSE <<>>))
      /\ fetchHist' = (IF runs THEN Started(fetchHist, debouncedSearchTerm)
                               ELSE fetchHist)
      /\ BurstEnds

\* CommandPrimitive.Input onBlur
Blur ==
  /\ open' = (IF mouseOn = FALSE THEN FALSE ELSE open)
  /\ UNCHANGED <<cfg, selected, options, inputValue, debouncedSearchTerm,
                 timers, mouseOn, isLoading, inflight>>
  /\ Render
  /\ WalkerStays
  /\ Alive
  /\ NoFetch
  /\ Observe("none", <<>>, 0, <<>>)
  /\ BurstEnds

\* CommandList onMouseEnter
MouseEnter ==
  /\ open
  /\ mouseOn' = TRUE
  /\ UNCHANGED <<cfg, selected, options, inputValue, debouncedSearchTerm,
                 timers, open, isLoading, inflight>>
  /\ Render
  /\ WalkerStays
  /\ Alive
  /\ NoFetch
  /\ Observe("none", <<>>, 0, <<>>)
  /\ BurstEnds

\* CommandList onMouseLeave
MouseLeave ==
  /\ open
  /\ mouseOn' = FALSE
  /\ UNCHANGED <<cfg, selected, options, inputValue, debouncedSearchTerm,
                 timers, open, isLoading, inflight>>
  /\ Render
  /\ WalkerStays
  /\ Alive
  /\ NoFetch
  /\ Observe("none", <<>>, 0, <<>>)
  /\ BurstEnds

\* handleSearch: the user edits the text of the focused input to q
Type(q) ==
  /\ open
  /\ q # inputValue
  /\ inputValue' = q
  /\ timers' = debounceTimers(inputValue, q, timers)
  /\ UNCHANGED <<cfg, selected, options, debouncedSearchTerm, open, mouseOn,
                 isLoading, inflight>>
  /\ Render
  /\ WalkerStays
  /\ Alive
  /\ NoFetch
  /\ Observe("none", <<>>, 0, <<>>)
  /\ burst' =
       IF burst = <<>>
         THEN IF /\ q = RapidQueries[1]
                 /\ inputValue = EmptyStr /\ debouncedSearchTerm = EmptyStr
                 /\ inflight = EmptyBag
                THEN <<q>>
                ELSE <<>>
         ELSE IF Len(burst) < Len(RapidQueries) /\ q = RapidQueries[Len(burst) + 1]
                   /\ timers # <<>>
                THEN Append(burst, q)
                ELSE <<>>
  /\ execLog' = (IF burst' = <<>> \/ burst = <<>> THEN <<>> ELSE execLog)

\* the setTimeout callback of useDebounce, then the search effect
TimerFire ==
  LET term == timers[1]
      changed == term # debouncedSearchTerm
      n == doSearchCount(term)
      runs == changed /\ cfg.onSearch /\ open /\ n > 0
      filters == changed /\ ~cfg.onSearch
      whole == Len(burst) = Len(RapidQueries)
  IN  /\ timers # <<>>
      /\ runs => BagCardinality(inflight) < MaxInFlight
      /\ timers' = Tail(timers)
      /\ debouncedSearchTerm' = term
      /\ inflight' = (IF runs THEN Issue(inflight, Fetch(term, n = 2))
                              ELSE inflight)
      /\ isLoading' = (isLoading \/ runs)
      /\ UNCHANGED <<cfg, selected, options, inputValue, open, mouseOn>>
      /\ Render
      /\ WalkerStays
      /\ Alive
      /\ Observe("none", <<>>, 0, IF runs THEN <<term>> ELSE <<>>)
      /\ fetchHist' = (IF runs THEN Started(fetchHist, term) ELSE fetchHist)
      /\ burst' = (IF whole THEN burst ELSE <<>>)
      /\ execLog' = (IF ~whole THEN <<>>
                     ELSE IF runs \/ filters THEN Append(execLog, term)
                     ELSE execLog)

\* ------------------------------------------------------------------ selection events
\* CommandGroupContent onSelect(option) on the i-th rendered candidate
Select(i) ==
  /\ ListShown
  /\ i \in 1..Len(selectables)
  /\ ~IsDisabled(selectables[i])
  /\ IF AtLimit(selected)
       THEN /\ UNCHANGED <<selected, inputValue, timers>>
            /\ Observe("Select", <<>>, 1, <<>>)
       ELSE /\ inputValue' = EmptyStr
            /\ selected' = appendOption(selected, selectables[i])
            /\ timers' = debounceTimers(inputValue, EmptyStr, timers)
            /\ Observe("Select", <<selected'>>, 0, <<>>)
  /\ UNCHANGED <<cfg, options, debouncedSearchTerm, open, mouseOn, isLoading,
                 inflight>>
  /\ Render
  /\ WalkerStays
  /\ Alive
  /\ NoFetch
  /\ BurstEnds

\* CreatableItem onSelect(value); cmdk passes the item's value, the input text
Create ==
  /\ ListShown
  /\ CreatableItem
  /\ IF AtLimit(selected)
       THEN /\ UNCHANGED <<selected, inputValue, timers>>
            /\ Observe("Create", <<>>, 1, <<>>)
       ELSE /\ inputValue' = EmptyStr
            /\ selected' = appendOption(selected, createdOption(inputValue))
            /\ timers' = debounceTimers(inputValue, EmptyStr, timers)
            /\ Observe("Create", <<selected'>>, 0, <<>>)
  /\ UNCHANGED <<cfg, options, debouncedSearchTerm, open, mouseOn, isLoading,
                 inflight>>
  /\ Render
  /\ WalkerStays
  /\ Alive
  /\ NoFetch
  /\ BurstEnds

\* handleKeyDown with e.key 'Delete' or 'Backspace'
KeyDelete ==
  LET target == keyDownTarget(selected, inputValue)
  IN  /\ IF target # <<>>
           THEN /\ selected' = handleUnselect(selected, target[1])
                /\ Observe("KeyDelete", <<selected'>>, 0, <<>>)
           ELSE /\ UNCHANGED selected
                /\ Observe("KeyDelete", <<>>, 0, <<>>)
      /\ UNCHANGED <<cfg, options, inputValue, debouncedSearchTerm, timers,
                     open, mouseOn, isLoading, inflight>>
      /\ Render
      /\ WalkerStays
      /\ Alive
      /\ NoFetch
      /\ BurstEnds

\* the X button of the i-th badge; it is hidden on a fixed entry
ChipDelete(i) ==
  /\ i \in 1..Len(selected)
  /\ ~chipDeleteHidden(selected[i])
  /\ selected' = handleUnselect(selected, selected[i])
  /\ Observe("ChipDelete", <<selected'>>, 0, <<>>)
  /\ UNCHANGED <<cfg, options, inputValue, debouncedSearchTerm, timers, open,
                 mouseOn, isLoading, inflight>>
  /\ Render
  /\ WalkerStays
  /\ Alive
  /\ NoFetch
  /\ BurstEnds

\* the clear-all button's onClick
ClearAll ==
  /\ ~clearAllHidden(selected)
  /\ selected' = clearAllSelected(selected)
  /\ Observe("ClearAll", <<clearAllNotified(selected)>>, 0, <<>>)
  /\ UNCHANGED <<cfg, options, inputValue, debouncedSearchTerm, timers, open,
                 mouseOn, isLoading, inflight>>
  /\ Render
  /\ WalkerStays
  /\ Alive
  /\ NoFetch
  /\ BurstEnds

\* the host re-renders with another value prop: useEffect(..., [value])
ValueSync(v) ==
  /\ v # selected
  /\ selected' = v
  /\ Observe("none", <<>>, 0, <<>>)
  /\ UNCHANGED <<cfg, options, inputValue, debouncedSearchTerm, timers, open,
                 mouseOn, isLoading, inflight>>
  /\ Render
  /\ WalkerStays
  /\ Alive
  /\ NoFetch
  /\ BurstEnds

\* ------------------------------------------------------------------ async search
\* a promise of onSearch resolves; doSearch continues after its await
FetchResolve(r) ==
  /\ BagIn(r, inflight)
  /\ options' = resolvedOptions(options, fetchHist, SearchResult(r.term))
  /\ fetchHist' = [fetchHist EXCEPT !.last = r.term]
  /\ isLoading' = r.more
  /\ inflight' = (IF r.more THEN Issue(Settle(inflight, r), Fetch(r.term, FALSE))
                            ELSE Settle(inflight, r))
  /\ execLog' = (IF r.more /\ burst # <<>> THEN Append(execLog, r.term) ELSE execLog)
  /\ Observe("none", <<>>, 0, IF r.more THEN <<r.term>> ELSE <<>>)
  /\ UNCHANGED <<cfg, selected, inputValue, debouncedSearchTerm, timers, open,
                 mouseOn, burst>>
  /\ Render
  /\ WalkerStays
  /\ Alive

\* a promise of onSearch rejects: the await throws, doSearch and exec stop
FetchReject(r) ==
  /\ BagIn(r, inflight)
  /\ inflight' = Settle(inflight, r)
  /\ UNCHANGED <<cfg, selected, options, inputValue, debouncedSearchTerm,
                 timers, open, mouseOn, isLoading, burst, execLog>>
  /\ fetchHist' = [fetchHist EXCEPT !.latest = NoTerm]
  /\ Render
  /\ WalkerStays
  /\ Alive
  /\ Observe("none", <<>>, 0, <<>>)

\* ------------------------------------------------------------------ teardown
\* the component unmounts: React runs the cleanup of every effect; the promises
\* of onSearch stay pending
Unmount ==
  /\ mounted
  /\ mounted' = FALSE
  /\ timers' = cleanupTimers(timers)
  /\ UNCHANGED <<cfg, selected, options, inputValue, debouncedSearchTerm, open,
                 mouseOn, isLoading, inflight>>
  /\ Render
  /\ WalkerStays
  /\ Observe("none", <<>>, 0, <<>>)
  /\ BurstEnds
  /\ NoFetch

\* a promise of onSearch settles after the unmount: setOptions and setIsLoading
\* are dropped by React, exec still runs its next doSearch after a resolve
OrphanSettle(r) ==
  /\ ~mounted
  /\ BagIn(r, inflight)
  /\ inflight' = (IF r.more THEN Issue(Settle(inflight, r), Fetch(r.term, FALSE))
                            ELSE Settle(inflight, r))
  /\ UNCHANGED <<cfg, selected, options, inputValue, debouncedSearchTerm, timers,
                 open, mouseOn, isLoading, mounted>>
  /\ Render
  /\ WalkerStays
  /\ Observe("none", <<>>, 0, IF r.more THEN <<r.term>> ELSE <<>>)
  /\ BurstEnds
  /\ NoFetch

\* ------------------------------------------------------------------ specification
Next ==
  \/ Focus
  \/ Blur
  \/ MouseEnter
  \/ MouseLeave
  \/ \E q \in Queries : Type(q)
  \/ TimerFire
  \/ \E i \in 1..Len(selectables) : Select(i)
  \/ Create
  \/ KeyDelete
  \/ \E i \in 1..Len(selected) : ChipDelete(i)
  \/ ClearAll
  \/ \E v \in HostValues : ValueSync(v)
  \/ \E r \in BagToSet(inflight) : FetchResolve(r)
  \/ \E r \in BagToSet(inflight) : FetchReject(r)
  \/ Unmount
  \/ \E r \in BagToSet(inflight) : OrphanSettle(r)

Spec == Init /\ [][Next]_vars

TypeOK ==
  /\ cfg \in Configs
  /\ inputValue \in Queries
  /\ debouncedSearchTerm \in Queries
  /\ Len(timers) <= 1
  /\ open \in BOOLEAN /\ mouseOn \in BOOLEAN /\ isLoading \in BOOLEAN
  /\ BagCardinality(inflight) <= MaxInFlight
  /\ mounted \in BOOLEAN

\* ================================================================== schema walker
\* ------------------------------------------------------------------ zod and utils
\* "innerType" in node._def
HasInner(n) == "innerType" \in DOMAIN n

\* utils.getBaseSchema: strip the optional/default wrappers, transitively
RECURSIVE getBaseSchema(_)
getBaseSchema(n) == IF HasInner(n) THEN getBaseSchema(n.innerType) ELSE n

\* utils.getBaseType: the type tag of the unwrapped node
getBaseType(n) == getBaseSchema(n).typeName

\* const { shape } = getBaseSchema(schema) || {}, as a 0/1-element sequence
shapeOf(n) ==
  LET base == getBaseSchema(n)
  IN  IF "shape" \in DOMAIN base THEN <<base.shape>> ELSE <<>>

\* variant: a schema is taken to have a shape whenever it is not undefined
returnsNull_schemaOnly(n) == n = Undefined

\* if (!schema) return null; ... if (!shape) return null
returnsNull(n) == n = Undefined \/ shapeOf(n) = <<>>

\* handleIfZodNumber: sets _def.coerce on a number or on the number directly
\* inside one wrapper, and returns the same (mutated) object
handleIfZodNumber(item) ==
  IF item.typeName = "ZodNumber"
    THEN [item EXCEPT !.coerce = TRUE]
    ELSE IF HasInner(item) /\ item.innerType.typeName = "ZodNumber"
           THEN [item EXCEPT !.innerType.coerce = TRUE]
           ELSE item

\* while ("innerType" in innerType._def && innerType._def.innerType) ...
RECURSIVE followInnerType(_)
followInnerType(n) == IF HasInner(n) THEN followInnerType(n.innerType) ELSE n

\* variant: an enum element does not make the array a multi-select
isZodPrimitiveArray_noEnum(item) ==
  LET unwrapped == followInnerType(item)
      isArray == unwrapped.typeName = "ZodArray"
      innerType == IF isArray THEN unwrapped.type ELSE unwrapped
  IN  [isPrimitiveArray |->
         isArray /\ innerType.typeName \in {"ZodString", "ZodNumber", "ZodBoolean"},
       isEnumOfPrimitives |-> FALSE,
       innerType |-> innerType]

\* isZodPrimitiveArray: follow innerType to the end, then look at the element
isZodPrimitiveArray(item) ==
  LET unwrapped == followInnerType(item)
      isArray == unwrapped.typeName = "ZodArray"
      innerType == IF isArray THEN unwrapped.type ELSE unwrapped
  IN  [isPrimitiveArray |->
         isArray /\ innerType.typeName \in {"ZodString", "ZodNumber", "ZodBoolean"},
       isEnumOfPrimitives |-> isArray /\ innerType.typeName = "ZodEnum",
       innerType |-> innerType]

\* utils.zodToHtmlInputProps(item).required: the declared type is not optional
zodToHtmlInputProps(item) == [required |-> item.typeName # "ZodOptional"]

\* zod: node.parse(input) for a number node; a string input is converted by
\* Number(input) only when _def.coerce is set
Digit(c) ==
  CASE c = "0" -> 0 [] c = "1" -> 1 [] c = "2" -> 2 [] c = "3" -> 3
    [] c = "4" -> 4 [] c = "5" -> 5 [] c = "6" -> 6 [] c = "7" -> 7
    [] c = "8" -> 8 [] c = "9" -> 9

RECURSIVE NumberOf(_)
NumberOf(s) ==
  IF s = <<>> THEN 0 ELSE 10 * NumberOf(SubSeq(s, 1, Len(s) - 1)) + Digit(s[Len(s)])

parse(node, input) ==
  LET base == getBaseSchema(node)
  IN  IF base.typeName = "ZodNumber" /\ base.coerce
        THEN [success |-> TRUE, data |-> NumberOf(input)]
        ELSE [success |-> FALSE]

\* ------------------------------------------------------------------ objects by reference
\* node with its unwrapped base replaced
RECURSIVE replaceBase(_, _)
replaceBase(n, base) ==
  IF HasInner(n) THEN [n EXCEPT !.innerType = replaceBase(n.innerType, base)]
                 ELSE base

\* shape[name] reached from the root through the key indices idxs
RECURSIVE nodeAt(_, _)
nodeAt(root, idxs) ==
  IF idxs = <<>> THEN root
  ELSE nodeAt(getBaseSchema(root).shape[idxs[1]].node, Tail(idxs))

\* the root after the object at idxs was mutated into item
RECURSIVE putAt(_, _, _)
putAt(root, idxs, item) ==
  IF idxs = <<>> THEN item
  ELSE LET base == getBaseSchema(root)
           child == putAt(base.shape[idxs[1]].node, Tail(idxs), item)
       IN  replaceBase(root, [base EXCEPT !.shape[idxs[1]].node = child])

\* ------------------------------------------------------------------ tables and rules
\* config.DEFAULT_ZOD_HANDLERS: the default widget kind of a base type, if any
DEFAULT_ZOD_HANDLERS(zodBaseType) ==
  CASE zodBaseType = "ZodBoolean" -> <<"checkbox">>
    [] zodBaseType = "ZodEnum" -> <<"select">>
    [] zodBaseType = "ZodNumber" -> <<"number">>
    [] OTHER -> <<>>

\* config.INPUT_COMPONENTS: the widget kinds that have a component
INPUT_COMPONENTS ==
  {"checkbox", "select", "number", "switch", "selectmultiinput", "fallback"}

\* a Dependency: while values[sourceField] holds, type applies to targetField
Rule(target, type) ==
  [sourceField |-> "toggle", targetField |-> target, type |-> type,
   options |-> <<"x", "y">>]

DependencyTypes == {"HIDES", "DISABLES", "REQUIRES", "SETS_OPTIONS"}

\* dependencies.resolveDependencies(dependencies, name, watch)
resolveDependencies(deps, name, watched) ==
  LET fires(type) ==
        \E i \in 1..Len(deps) :
          /\ deps[i].targetField = name
          /\ deps[i].type = type
          /\ watched[deps[i].sourceField]
      setters == SelectSeq(deps, LAMBDA d : /\ d.targetField = name
                                            /\ d.type = "SETS_OPTIONS"
                                            /\ watched[d.sourceField])
  IN  [isHidden |-> fires("HIDES"),
       isDisabled |-> fires("DISABLES"),
       isRequired |-> fires("REQUIRES"),
       overrideOptions |-> IF setters = <<>> THEN <<>>
                           ELSE <<setters[Len(setters)].options>>]

\* a FieldConfigItem: fieldType ("" when absent) and the inputProps the walker reads
ConfigItem(fieldType, required) ==
  [fieldType |-> fieldType, required |-> required, disabled |-> FALSE,
   creatable |-> FALSE]

\* fieldConfig?.[name] ?? {} for the key at path
configAt(config, path) ==
  LET hits == SelectSeq(config, LAMBDA c : c.path = path)
  IN  IF hits = <<>> THEN ConfigItem("", FALSE) ELSE hits[1].item

\* ------------------------------------------------------------------ walker inputs
Colors == <<"red", "green">>

\* the keys a schema is put together from
Fields ==
  << Key("age", ZNumber),
     Key("score", ZOptional(ZNumber)),
     Key("count", ZDefault(ZOptional(ZNumber))),
     Key("nick", ZOptional(ZString)),
     Key("color", ZEnum(Colors)),
     Key("tags", ZArray(ZString)),
     Key("labels", ZOptional(ZArray(ZString))),
     Key("colors", ZArray(ZEnum(Colors))),
     Key("items", ZArray(ZObject(<<Key("qty", ZNumber)>>))),
     Key("address", ZObject(<<Key("zip", ZNumber), Key("street", ZOptional(ZString))>>)) >>

\* the keys numbered by S, in the order of Fields
Pick(S) ==
  LET idx == SelectSeq([i \in 1..Len(Fields) |-> i], LAMBDA i : i \in S)
  IN  [k \in 1..Len(idx) |-> Fields[idx[k]]]

\* the schema prop: missing, without a shape, or an object of up to MaxKeys keys
Schemas ==
  {Undefined, ZOptional(ZString)} \cup
  {ZObject(Pick(S)) : S \in {T \in SUBSET (1..Len(Fields)) : Cardinality(T) <= MaxKeys}}

\* the paths of the keys of a schema, nested keys included
RECURSIVE PathsOf(_, _)
PathsOf(n, path) ==
  LET sh == shapeOf(n)
  IN  IF n = Undefined \/ sh = <<>> THEN {}
      ELSE UNION {{Append(path, sh[1][i].name)} \cup
                  PathsOf(sh[1][i].node, Append(path, sh[1][i].name)) :
                    i \in 1..Len(sh[1])}

\* the dependencies prop: no rule, or one rule on one key (by name)
DependencySets(n) ==
  {<<>>} \cup {<<Rule(p[Len(p)], t)>> : p \in PathsOf(n, <<>>), t \in DependencyTypes}

\* the fieldConfig prop: nothing, or one key configured with a widget kind
\* (one with a component, one without) and/or inputProps.required
FieldConfigs(n) ==
  {<<>>} \cup
  {<<[path |-> p, item |-> ConfigItem(ft, rq)]>> :
     p \in PathsOf(n, <<>>),
     ft \in {"", "switch", "bogus"}, rq \in BOOLEAN}

\* ------------------------------------------------------------------ walker steps
Frame(at, path, deps) == [at |-> at, path |-> path, i |-> 1, deps |-> deps]

WalkerInit ==
  /\ NoWidget
  /\ schema \in Schemas
  /\ schema0 = schema
  /\ dependencies \in DependencySets(schema)
  /\ fieldConfig \in FieldConfigs(schema)
  /\ values \in [{"toggle"} -> BOOLEAN]
  /\ frames = <<>>
  /\ out = <<>>
  /\ outcome = "idle"

\* the invocation in progress and the key its loop is at
Top == frames[Len(frames)]
TopShape == getBaseSchema(nodeAt(schema, Top.at)).shape
AtKey == outcome = "walking" /\ frames # <<>> /\ Top.i <= Len(TopShape)
CurName == TopShape[Top.i].name
CurPath == Append(Top.path, CurName)

\* item = handleIfZodNumber(shape[name]): the schema object itself is changed
CurItem == handleIfZodNumber(TopShape[Top.i].node)
Coerced == schema' = putAt(schema, Append(Top.at, Top.i), CurItem)

CurDeps == resolveDependencies(Top.deps, CurName, values)

\* the loop moves on to the next key
Advance(fs) == [fs EXCEPT ![Len(fs)].i = @ + 1]

WalkerFrame == UNCHANGED <<schema0, dependencies, fieldConfig, values>>

\* the root AutoFormObject is rendered
Enter ==
  /\ outcome = "idle"
  /\ IF returnsNull(schema)
       THEN outcome' = "done" /\ UNCHANGED frames
       ELSE IF shapeOf(schema) = <<>>
              THEN outcome' = "threw" /\ UNCHANGED frames
              ELSE /\ outcome' = "walking"
                   /\ frames' = <<Frame(<<>>, <<>>, dependencies)>>
  /\ UNCHANGED <<schema, out>>
  /\ WalkerFrame
  /\ UNCHANGED widgetVars

\* if (isHidden) return null
VisitHidden ==
  /\ AtKey
  /\ CurDeps.isHidden
  /\ Coerced
  /\ frames' = Advance(frames)
  /\ UNCHANGED <<out, outcome>>
  /\ WalkerFrame
  /\ UNCHANGED widgetVars

\* zodBaseType === "ZodObject": an accordion item around a nested AutoFormObject,
\* which is called without dependencies
VisitObject ==
  /\ AtKey
  /\ ~CurDeps.isHidden
  /\ getBaseType(CurItem) = "ZodObject"
  /\ Coerced
  /\ out' = Append(out, [kind |-> "section", key |-> CurPath, parent |-> Top.path,
                        at |-> Append(Top.at, Top.i)])
  /\ IF returnsNull(CurItem)
       THEN frames' = Advance(frames) /\ UNCHANGED outcome
       ELSE IF shapeOf(CurItem) = <<>>
              THEN outcome' = "threw" /\ UNCHANGED frames
              ELSE /\ frames' = Append(Advance(frames),
                                       Frame(Append(Top.at, Top.i), CurPath, <<>>))
                   /\ UNCHANGED outcome
  /\ WalkerFrame
  /\ UNCHANGED widgetVars

\* an array that is not a primitive array: <AutoFormArray>
VisitArray ==
  LET pa == isZodPrimitiveArray(CurItem)
  IN  /\ AtKey
      /\ ~CurDeps.isHidden
      /\ getBaseType(CurItem) = "ZodArray"
      /\ ~(pa.isPrimitiveArray \/ pa.isEnumOfPrimitives)
      /\ Coerced
      /\ out' = Append(out, [kind |-> "array", key |-> CurPath, parent |-> Top.path,
                            at |-> Append(Top.at, Top.i)])
      /\ frames' = Advance(frames)
      /\ UNCHANGED outcome
      /\ WalkerFrame
      /\ UNCHANGED widgetVars

\* { ...fieldConfig?.[name], fieldType: "selectmultiinput",
\*   inputProps: { ...inputProps, creatable: !isEnumOfPrimitives } }
overrideFieldConfig(configured, isEnumOfPrimitives) ==
  [configured EXCEPT !.fieldType = "selectmultiinput",
                     !.creatable = ~isEnumOfPrimitives]

\* fieldConfigItem.fieldType ?? DEFAULT_ZOD_HANDLERS[zodBaseType] ?? "fallback"
inputType(fieldConfigItem, zodBaseType) ==
  IF fieldConfigItem.fieldType # "" THEN fieldConfigItem.fieldType
  ELSE IF DEFAULT_ZOD_HANDLERS(zodBaseType) # <<>>
         THEN DEFAULT_ZOD_HANDLERS(zodBaseType)[1]
         ELSE "fallback"

\* variant: a kind without a component gets the fallback component
InputComponent_fallback(type) == IF type \in INPUT_COMPONENTS THEN type ELSE "fallback"

\* INPUT_COMPONENTS[inputType], "undefined" when the table has no such entry
InputComponent(type) == IF type \in INPUT_COMPONENTS THEN type ELSE "undefined"

\* isRequiredByDependency || zodInputProps.required || inputProps?.required || false
isRequired(byDependency, zodInputProps, fieldConfigItem) ==
  byDependency \/ zodInputProps.required \/ fieldConfigItem.required

\* a leaf, or an array of primitives or enums: one <FormField>
VisitField ==
  LET zodBaseType == getBaseType(CurItem)
      pa == isZodPrimitiveArray(CurItem)
      multi == zodBaseType = "ZodArray"
      configured == configAt(fieldConfig, CurPath)
      fieldConfigItem ==
        IF multi THEN overrideFieldConfig(configured, pa.isEnumOfPrimitives)
                 ELSE configured
      item == IF multi THEN pa.innerType ELSE CurItem
      zodInputProps == zodToHtmlInputProps(item)
      zodItem == IF CurDeps.overrideOptions # <<>>
                   THEN ZEnum(CurDeps.overrideOptions[1])
                   ELSE item
  IN  /\ AtKey
      /\ ~CurDeps.isHidden
      /\ zodBaseType # "ZodObject"
      /\ multi => (pa.isPrimitiveArray \/ pa.isEnumOfPrimitives)
      /\ Coerced
      /\ out' = Append(out,
           [kind |-> "field", key |-> CurPath, parent |-> Top.path,
            at |-> Append(Top.at, Top.i),
            inputType |-> inputType(fieldConfigItem, zodBaseType),
            widget |-> InputComponent(inputType(fieldConfigItem, zodBaseType)),
            isRequired |-> isRequired(CurDeps.isRequired, zodInputProps, fieldConfigItem),
            disabled |-> (fieldConfigItem.disabled \/ CurDeps.isDisabled),
            creatable |-> fieldConfigItem.creatable,
            zodItem |-> zodItem])
      /\ frames' = Advance(frames)
      /\ UNCHANGED outcome
      /\ WalkerFrame
      /\ UNCHANGED widgetVars

\* Object.keys(shape).map(...) is through: the invocation returns its elements
Return ==
  /\ outcome = "walking"
  /\ frames # <<>>
  /\ Top.i > Len(TopShape)
  /\ frames' = SubSeq(frames, 1, Len(frames) - 1)
  /\ outcome' = (IF Len(frames) = 1 THEN "done" ELSE outcome)
  /\ UNCHANGED <<schema, out>>
  /\ WalkerFrame
  /\ UNCHANGED widgetVars

WalkerNext ==
  \/ Enter
  \/ VisitHidden
  \/ VisitObject
  \/ VisitArray
  \/ VisitField
  \/ Return

WalkerSpec == WalkerInit /\ [][WalkerNext]_vars

\* ------------------------------------------------------------------ what a field shows
\* AutoFormEnumMultiInput: the defaultOptions it hands to MultipleSelector
multiInputOptions(creatable, zodItem) ==
  LET base == getBaseSchema(zodItem)
  IN  IF ~creatable /\ "values" \in DOMAIN base THEN base.values ELSE <<>>

\* the enum select: one entry per value of the enum it is given
selectOptions(zodItem) ==
  LET base == getBaseSchema(zodItem)
  IN  IF "values" \in DOMAIN base THEN base.values ELSE <<>>

\* the candidate values a rendered field presents
candidates(el) ==
  CASE el.widget = "selectmultiinput" -> multiInputOptions(el.creatable, el.zodItem)
    [] el.widget = "select" -> selectOptions(el.zodItem)
    [] OTHER -> <<>>

WalkerTypeOK ==
  /\ outcome \in {"idle", "walking", "done", "threw"}
  /\ Len(frames) <= 2
  /\ outcome = "walking" <=> frames # <<>>
  /\ \A i \in 1..Len(out) : out[i].kind \in {"section", "array", "field"}

\* ------------------------------------------------------------------ properties
\* the handlers that add to or remove from the selection
WidgetOps == {"Select", "Create", "KeyDelete", "ChipDelete", "ClearAll"}

\* no entry of s has the value v (case-insensitively)
NoValueLike(s, v) ==
  \A i \in 1..Len(s) : toLowerCase(s[i].value) # toLowerCase(v)

\* the entries of s that are marked fixed, in order
RECURSIVE FixedOnly(_)
FixedOnly(s) ==
  IF s = <<>> THEN <<>>
  ELSE (IF IsFixed(Head(s)) THEN <<Head(s)>> ELSE <<>>) \o FixedOnly(Tail(s))

\* C1: selecting a candidate (regular or create) while the selection holds
\* maxSelected entries leaves the selection unchanged, makes no onChange call
\* and makes exactly one onMaxSelected call.
C1_LimitBlocksSelect ==
  (lastOp \in {"Select", "Create"} /\ Len(prev.selected) = cfg.maxSelected)
    => (selected = prev.selected /\ changeLog = <<>> /\ maxCalls = 1)

C1_Witness ==
  /\ lastOp = "Create"
  /\ Len(prev.selected) = cfg.maxSelected
  /\ maxCalls = 1

\* C2: selecting a candidate below the limit appends exactly that candidate at
\* the end of the selection, the earlier entries unchanged, and empties the
\* query text; the create-candidate for query q appends {value: q, label: q}.
C2_SelectAppends ==
  (lastOp \in {"Select", "Create"} /\ Len(prev.selected) < cfg.maxSelected)
    => /\ Len(selected) = Len(prev.selected) + 1
       /\ SubSeq(selected, 1, Len(prev.selected)) = prev.selected
       /\ inputValue = EmptyStr
       /\ lastOp = "Select" =>
            \E i \in 1..Len(options) :
              /\ selected[Len(selected)] =
                   [value |-> options[i].value, label |-> options[i].label]
              /\ \A j \in 1..Len(prev.selected) :
                   prev.selected[j].value # options[i].value
       /\ lastOp = "Create" =>
            selected[Len(selected)] =
              [value |-> prev.inputValue, label |-> prev.inputValue]

C2_Witness ==
  /\ lastOp = "Create"
  /\ Len(prev.selected) = 1
  /\ prev.inputValue = Prefix(3)
  /\ selected = Append(prev.selected, [value |-> Prefix(3), label |-> Prefix(3)])
  /\ inputValue = EmptyStr

\* C3: the candidate list is the option pool, in pool order, without the
\* options whose value equals (case-sensitively) a selected value and, with no
\* async source, without those whose value does not contain the debounced
\* query case-insensitively.
C3_CandidateList ==
  LET offered(o) ==
        /\ \A i \in 1..Len(selected) : selected[i].value # o.value
        /\ cfg.onSearch \/
             includes(toLowerCase(o.value), toLowerCase(debouncedSearchTerm))
      rest == SelectSeq(options, offered)
  IN  /\ Len(selectables) = Len(rest)
      /\ \A i \in 1..Len(rest) :
           /\ selectables[i].value = rest[i].value
           /\ selectables[i].label = rest[i].label

C3_Witness ==
  /\ ~cfg.onSearch
  /\ debouncedSearchTerm = Prefix(2)
  /\ Len(selected) = 1 /\ selected[1].value = <<"a">>
  /\ Len(selectables) = 1 /\ selectables[1].value = <<"A", "B">>

\* C4: Backspace/Delete with an empty query and a non-empty selection: a fixed
\* last entry leaves the selection unchanged with no onChange call; a non-fixed
\* last entry is the one entry removed.  With a non-empty query the selection
\* is unchanged.
C4_KeyDelete ==
  lastOp = "KeyDelete"
    => IF prev.inputValue = EmptyStr /\ Len(prev.selected) > 0
         THEN IF IsFixed(prev.selected[Len(prev.selected)])
                THEN selected = prev.selected /\ changeLog = <<>>
                ELSE selected = SubSeq(prev.selected, 1, Len(prev.selected) - 1)
         ELSE selected = prev.selected

C4_Witness ==
  /\ lastOp = "KeyDelete"
  /\ prev.inputValue = EmptyStr
  /\ Len(prev.selected) = 2 /\ ~IsFixed(prev.selected[2])
  /\ Len(selected) = 1 /\ IsFixed(selected[1])

\* C5: clear-all leaves exactly the fixed entries of the previous selection, in
\* their order, and passes that sequence to onChange.
C5_ClearAll ==
  lastOp = "ClearAll"
    => (selected = FixedOnly(prev.selected) /\ changeLog = <<FixedOnly(prev.selected)>>)

C5_Witness ==
  /\ lastOp = "ClearAll"
  /\ Len(prev.selected) = 2
  /\ selected = <<optFixedB>>
  /\ changeLog = <<selected>>

\* C6: no select, create, Backspace/Delete, chip delete or clear-all removes an
\* entry that is marked fixed.
C6_FixedStays ==
  lastOp \in WidgetOps
    => \A i \in 1..Len(prev.selected) :
         IsFixed(prev.selected[i]) =>
           \E j \in 1..Len(selected) : selected[j] = prev.selected[i]

C6_Witness ==
  /\ lastOp = "ChipDelete"
  /\ Len(selected) < Len(prev.selected)
  /\ \E i \in 1..Len(selected) : IsFixed(selected[i])

\* C7: every add, remove and clear-all step that changes the selection calls
\* onChange exactly once in that step, with the complete new selection.
C7_ChangeNotified ==
  (lastOp \in WidgetOps /\ selected # prev.selected) => changeLog = <<selected>>

C7_Witness ==
  /\ lastOp = "Select"
  /\ selected # prev.selected
  /\ Len(selected) = 2
  /\ changeLog = <<selected>>

\* the query names neither a pool option nor a selected entry (case-insensitively)
QueryIsNew ==
  /\ Len(inputValue) > 0
  /\ NoValueLike(options, inputValue)
  /\ NoValueLike(selected, inputValue)

\* C8 as stated: in creatable mode a non-empty query that names neither a pool
\* option nor a selected entry has the create-candidate offered, with a static
\* pool and with an async source alike.
C8_Original == (cfg.creatable /\ QueryIsNew) => CreatableItem

\* C8 amended: with an async source the create-candidate is offered for such a
\* query once the debounced query is non-empty and no search is loading.
C8_CreateOffered ==
  ( /\ cfg.creatable
    /\ QueryIsNew
    /\ cfg.onSearch => (Len(debouncedSearchTerm) > 0 /\ ~isLoading) )
  => CreatableItem

C8_Witness ==
  /\ cfg.creatable /\ cfg.onSearch
  /\ QueryIsNew
  /\ ListShown
  /\ debouncedSearchTerm = inputValue
  /\ CreatableItem

\* C9: the create-candidate is never on offer while the query text is empty,
\* creatable mode is off, or the query names a pool option or a selected entry.
C9_Original == (ListShown /\ CreatableItem) => (cfg.creatable /\ QueryIsNew)

\* every fetch has settled and no debounce timer is pending
Settled == timers = <<>> /\ inflight = EmptyBag

\* C10: the queries "a", "ab", "abc" typed inside one debounce window while the
\* widget is open lead to exactly one filter execution (static pool) or one
\* onSearch invocation (async source), and it uses "abc".
C10_Original ==
  (burst = RapidQueries /\ Settled) => execLog = <<RapidQueries[Len(RapidQueries)]>>

\* C11: after a rejected fetch the loading flag is reset: whenever no fetch is
\* outstanding the loading flag is false.
C11_Original == inflight = EmptyBag => ~isLoading

\* C20 as stated: once overlapping fetches have all resolved, the option pool
\* holds the result of the fetch for the latest query searched for, whatever
\* the order in which they resolved.
C20_Original ==
  (fetchHist.latest # NoTerm /\ inflight = EmptyBag)
    => options = SearchResult(fetchHist.latest)

\* C20 amended: the option pool holds the result of the fetch that resolved
\* last, also when that fetch was issued for an earlier query.
C20_LastResolvedWins ==
  fetchHist.last # NoTerm => options = SearchResult(fetchHist.last)

C20_Witness ==
  /\ inflight = EmptyBag
  /\ fetchHist.latest = Prefix(2)
  /\ fetchHist.last = Prefix(1)
  /\ options = SearchResult(Prefix(1))
  /\ options # SearchResult(Prefix(2))

\* C21: a widget instance has at most one pending debounce timer, and the pending
\* timer is the one of the current query text (a query change cancelled the timer
\* before it); with no timer pending on a mounted widget the debounced query is the
\* query text; after teardown no timer is pending and the debounced query never
\* changes again.
C21_OneTimer ==
  /\ [](/\ Len(timers) <= 1
        /\ (mounted /\ timers # <<>>) => timers = <<inputValue>>
        /\ (mounted /\ timers = <<>>) => debouncedSearchTerm = inputValue
        /\ ~mounted => timers = <<>>)
  /\ [][~mounted => UNCHANGED debouncedSearchTerm]_vars

\* torn down while the timer of an undebounced query was pending
C21_Witness ==
  /\ ~mounted
  /\ timers = <<>>
  /\ inputValue # debouncedSearchTerm
  /\ inflight # EmptyBag

\* C22 as stated: focusing the input opens the widget; a blur closes it exactly
\* when the pointer is not over the option panel; and no step invokes onSearch
\* while the widget is closed.
C22_Original ==
  /\ [](searchCalls # <<>> => open)
  /\ [][(Focus => open') /\ (Blur => (open' <=> mouseOn))]_vars

\* C23 as stated: whenever a fetch started by the (mounted) widget is still
\* unresolved, the loading flag is true.
C23_Original == (mounted /\ inflight # EmptyBag) => isLoading

\* no two entries of s have the same value
Distinct(s) == \A i, j \in 1..Len(s) : i # j => s[i].value # s[j].value

C26_Original ==
  (lastOp = "Select" /\ Len(selected) > Len(prev.selected)) =>
    \A i \in 1..Len(options) :
      options[i].value = selected[Len(selected)].value => ~IsDisabled(options[i])

\* C27 as stated: from an initial selection of at most maxSelected entries, the
\* selection holds at most maxSelected entries in every reachable state, updates
\* of the controlled value by the host included.
C27_Original == Len(selected) <= cfg.maxSelected

\* ------------------------------------------------------------------ walker properties
\* an invocation has gone through all keys of its shape
LevelDone == outcome = "walking" /\ frames # <<>> /\ Top.i > Len(TopShape)

\* the element puts something on the page
Renders(el) == el.kind # "field" \/ el.widget # "undefined"

\* the elements the invocation at path returned that render something
RenderedAt(path) == {i \in 1..Len(out) : out[i].parent = path /\ Renders(out[i])}

\* the keys of the invocation in progress that none of its rules hides
Unhidden ==
  {k \in 1..Len(TopShape) :
     ~resolveDependencies(Top.deps, TopShape[k].name, values).isHidden}

\* the pass is over and went through the keys of a root object
RootDone == outcome = "done" /\ shapeOf(schema0) # <<>>
RootKeys == 1..Len(shapeOf(schema0)[1])
RootName(k) == shapeOf(schema0)[1][k].name
RootRules(k) == resolveDependencies(dependencies, RootName(k), values)

\* the elements returned for the root key k
ElementsOf(k) == {i \in 1..Len(out) : out[i].at = <<k>>}

\* C12 as stated: for every object schema the number of fields output equals
\* the number of keys no dependency rule hides, keys whose widget kind has no
\* entry in the widget table included.
C12_Original == LevelDone => Cardinality(RenderedAt(Top.path)) = Cardinality(Unhidden)

\* C12 amended: the number of fields rendered for an object schema equals the
\* number of its keys that no rule of the invocation hides and whose configured
\* widget kind, if a leaf has one, has an entry in the widget table.
C12_FieldCount ==
  LET known(k) ==
        LET node == getBaseSchema(TopShape[k].node)
            kind == configAt(fieldConfig, Append(Top.path, TopShape[k].name)).fieldType
        IN  \/ node.typeName \in {"ZodObject", "ZodArray"}
            \/ kind = ""
            \/ kind \in INPUT_COMPONENTS
  IN  LevelDone =>
        Cardinality(RenderedAt(Top.path)) = Cardinality({k \in Unhidden : known(k)})

C12_Witness ==
  /\ LevelDone
  /\ Top.path = <<>>
  /\ Len(TopShape) = 2
  /\ Cardinality(Unhidden) = 1
  /\ Len(out) = 1 /\ ~Renders(out[1])
  /\ RenderedAt(<<>>) = {}

\* C13: a key a hide rule fires for is left as it was: its schema node (the
\* coerce flag included) is unchanged by the pass and nothing is rendered for it.
C13_Original ==
  RootDone =>
    \A k \in RootKeys :
      RootRules(k).isHidden =>
        /\ nodeAt(schema, <<k>>) = nodeAt(schema0, <<k>>)
        /\ ElementsOf(k) = {}

\* C14: after the pass every key whose base type, all wrappers stripped, is a
\* number takes the string "42" as the number 42.
C14_Original ==
  RootDone =>
    \A k \in RootKeys :
      (getBaseType(nodeAt(schema0, <<k>>)) = "ZodNumber" /\ ~RootRules(k).isHidden)
        => parse(nodeAt(schema, <<k>>), <<"4", "2">>) = [success |-> TRUE, data |-> 42]

\* C15: a field shown by a select or multi-select whose key a rule supplies an
\* option list for presents exactly that list, creatable arrays included.
C15_Original ==
  \A i \in 1..Len(out) :
    ( /\ out[i].kind = "field"
      /\ out[i].parent = <<>>
      /\ out[i].widget \in {"select", "selectmultiinput"}
      /\ RootRules(out[i].at[1]).overrideOptions # <<>> )
    => candidates(out[i]) = RootRules(out[i].at[1]).overrideOptions[1]

\* C16: the widget kind of a field is the configured kind when there is one,
\* otherwise the default for its base type (the multi-select for an array of
\* primitives or enums), otherwise the fallback; also for such arrays.
C16_Original ==
  \A i \in 1..Len(out) :
    out[i].kind = "field" =>
      LET base == getBaseSchema(nodeAt(schema0, out[i].at))
          kind == configAt(fieldConfig, out[i].key).fieldType
      IN  out[i].inputType =
            IF kind # "" THEN kind
            ELSE IF base.typeName = "ZodArray" THEN "selectmultiinput"
            ELSE IF DEFAULT_ZOD_HANDLERS(base.typeName) # <<>>
                   THEN DEFAULT_ZOD_HANDLERS(base.typeName)[1]
                   ELSE "fallback"

\* C17: an array key that is not hidden yields one multi-select field when its
\* element type is string, number, boolean or an enum, creatable exactly when
\* the element is not an enum, and the composite array component otherwise.
C17_ArrayFields ==
  RootDone =>
    \A k \in RootKeys :
      LET base == getBaseSchema(nodeAt(schema0, <<k>>))
      IN  (base.typeName = "ZodArray" /\ ~RootRules(k).isHidden) =>
            /\ Cardinality(ElementsOf(k)) = 1
            /\ \A i \in ElementsOf(k) :
                 IF base.type.typeName \in
                      {"ZodString", "ZodNumber", "ZodBoolean", "ZodEnum"}
                   THEN /\ out[i].kind = "field"
                        /\ out[i].widget = "selectmultiinput"
                        /\ out[i].creatable = (base.type.typeName # "ZodEnum")
                   ELSE out[i].kind = "array"

C17_Witness ==
  /\ RootDone
  /\ Len(out) = 2
  /\ out[1].key = <<"colors">> /\ out[1].kind = "field"
  /\ out[1].widget = "selectmultiinput" /\ ~out[1].creatable
  /\ out[2].key = <<"items">> /\ out[2].kind = "array"

\* C18: a root-level field is marked required exactly when a rule requires it,
\* its declared type is not optional, or its configured inputProps say so.
C18_Original ==
  \A i \in 1..Len(out) :
    (out[i].kind = "field" /\ out[i].parent = <<>>) =>
      out[i].isRequired =
        ( \/ RootRules(out[i].at[1]).isRequired
          \/ nodeAt(schema0, out[i].at).typeName # "ZodOptional"
          \/ configAt(fieldConfig, out[i].key).required )

\* C19: a schema that is missing or has no shape gives an empty result and no
\* error, the schema left as it was; and no invocation at any level throws.
C19_EmptyResult ==
  /\ outcome # "threw"
  /\ (outcome # "idle" /\ (schema0 = Undefined \/ shapeOf(schema0) = <<>>))
       => (outcome = "done" /\ out = <<>> /\ frames = <<>> /\ schema = schema0)

C19_Witness ==
  /\ outcome = "done"
  /\ schema0 = ZOptional(ZString)
  /\ out = <<>>

\* the rules that fire for the key of an output element, by the key's name
RulesOn(el) == resolveDependencies(dependencies, el.key[Len(el.key)], values)

\* the element is what the firing rules allow: not hidden, disabled when a
\* DISABLES rule fires, required when a REQUIRES rule fires
Obeys(el) ==
  /\ ~RulesOn(el).isHidden
  /\ el.kind = "field" =>
       /\ RulesOn(el).isDisabled => el.disabled
       /\ RulesOn(el).isRequired => el.isRequired

\* C24 as stated: the dependency rules take effect on the keys of every object
\* the walker visits, nested objects included, as they do on root-level keys.
C24_Original == \A i \in 1..Len(out) : Obeys(out[i])

====
